---- MODULE Spec2Model ----
(***************************************************************************)
(* Asynchronous job lifecycle of gemini-mcp: video generation jobs         *)
(* (startVideoGeneration / checkVideoStatus, registry                      *)
(* activeVideoOperations), deep research jobs (startDeepResearch /         *)
(* checkDeepResearch, tool map activeResearchOperations) and the CLI       *)
(* polling loops of videoCommand and researchCommand.                      *)
(***************************************************************************)
EXTENDS Naturals, FiniteSets, Sequences, TLC

\* ------------------------------------------------------------------ bounds
JobIds == {"a", "b"}
\* concurrent tool invocations in the server process
Callers == {"t1", "t2"}
\* the call slot of the CLI polling loop
LoopCaller == "loop"
AllCallers == Callers \cup {LoopCaller}
\* attempt budget of the polling loops (60 for video, 180 for research)
MaxAttempts == 3
\* cap on the counted fetches / file writes per id
MaxCount == 2
\* cap on the number of CLI runs whose outcome is recorded
MaxRuns == 2
\* last millisecond Date.now() reaches
MaxClock == 2
\* cap on the number of job starts of one process
MaxStarts == 3

\* ------------------------------------------------------------------ values
NoErr == "none"
NoUri == "none"
NoPath == "none"
\* the reason the remote service gives for a failed video job
RemoteError == "quota"
NotFoundMsg == "Operation not found. It may have expired or the server was restarted."
ResearchFailedMsg == "Research task failed or was cancelled"
VideoProbeErrMsg == "network error"
ResearchCheckErrMsg == "Failed to check research status: network error"

\* String(status.error): the SDK's operation error is an object, so the
\* conversion yields the generic object text whatever the remote's reason
StringOfError(e) == "[object Object]"

\* `String(status.error) || 'Unknown error'`
ErrorText(e) == IF StringOfError(e) = "" THEN "Unknown error" ELSE StringOfError(e)

\* Map helpers (JavaScript Map get / set / delete)
MapHas(m, k) == k \in DOMAIN m
MapSet(m, k, v) == [x \in DOMAIN m \cup {k} |-> IF x = k THEN v ELSE m[x]]
MapDelete(m, k) == [x \in DOMAIN m \ {k} |-> m[x]]
EmptyMap == [x \in {} |-> x]

\* the operation object returned by generateVideos / getVideosOperation
\* (from: "probe" for the object a getVideosOperation call answered with)
Operation(done, error, uri) ==
  [done |-> done, error |-> error, uri |-> uri, from |-> "probe"]
NoOperation == Operation(FALSE, NoErr, NoUri)
\* the operation object generateVideos answered with: the job's remote handle
StartedOperation == [Operation(FALSE, NoErr, NoUri) EXCEPT !.from = "start"]

\* what the remote service answers to getVideosOperation for a job in state s
RemoteVideoStatus(s) ==
  CASE s = "doneOk"    -> Operation(TRUE, NoErr, "uri")
    [] s = "doneNoUri" -> Operation(TRUE, NoErr, NoUri)
    [] s = "doneErr"   -> Operation(TRUE, RemoteError, NoUri)
    [] OTHER           -> Operation(FALSE, NoErr, NoUri)

\* VideoGenerationResult
VideoResult(status, error, videoUri, filePath) ==
  [status |-> status, error |-> error, videoUri |-> videoUri, filePath |-> filePath]
NoVideoResult == VideoResult("none", NoErr, NoUri, NoPath)
VideoNotFound == VideoResult("failed", NotFoundMsg, NoUri, NoPath)
VideoThrew == VideoResult("threw", VideoProbeErrMsg, NoUri, NoPath)

\* DeepResearchResult
ResearchResult(status, error, savedPath) ==
  [status |-> status, error |-> error, savedPath |-> savedPath]
NoResearchResult == ResearchResult("none", NoErr, NoPath)
ResearchThrew == ResearchResult("threw", ResearchCheckErrMsg, NoPath)

IdleVideoCall ==
  [pc |-> "idle", id |-> "a", op |-> NoOperation, status |-> NoOperation,
   fetch |-> "none", res |-> NoVideoResult, late |-> FALSE, unreg |-> FALSE]
IdleResearchCall ==
  [pc |-> "idle", id |-> "a", status |-> "none", res |-> NoResearchResult,
   late |-> FALSE, unreg |-> FALSE]

Inc(n) == IF n < MaxCount THEN n + 1 ELSE n

VARIABLES
  activeVideoOperations,    \* Map<string, unknown> of the client module
  activeResearchOperations, \* Map of the deep-research tool (its key set)
  videoRemote,              \* remote state of each video job
  researchRemote,           \* remote state of each research interaction
  vcall,                    \* checkVideoStatus invocations in flight, per caller
  rcall,                    \* checkDeepResearch invocations in flight, per caller
  videoFetches,             \* fetch(videoUri) attempts per id
  researchSaves,            \* research response file writes per id
  vEver,                    \* ids ever registered in activeVideoOperations
  rEver,                    \* research ids ever started in this process
  vTerminal,                \* ids for which a check returned completed / failed
  rTerminal,
  vobs,                     \* last status the caller observed per video id
  loop,                     \* the polling loop of the CLI command
  seen,                     \* (terminal outcome, reported outcome) of finished runs
  clock,                    \* Date.now() of the process
  scall,                    \* job start invocations in flight, per caller
  issued,                   \* (kind, id) of every successful start, in order
  overwritten,              \* (kind, id) whose registry entry a later start replaced
  env,                      \* process.env: GEMINI_TOOL_PRESET, GEMINI_ENABLED_TOOLS
  enabled,                  \* outcome of getEnabledToolGroups()
  analysisIn,               \* arguments of buildAnalysisPrompt
  analysisOut,              \* its outcome
  bar,                      \* the progress line of a polling loop, real budgets
  activeEditSessions,       \* Map<string, session> of the image-edit tools
  icall,                    \* image-edit tool invocations, per caller
  sent,                     \* chat.sendMessage calls of continue, per session id
  everSessions,             \* session ids ever registered
  endedSessions,            \* session ids gemini-end-image-edit removed
  conn                      \* initGeminiClient

vars == <<activeVideoOperations, activeResearchOperations, videoRemote,
          researchRemote, vcall, rcall, videoFetches, researchSaves, vEver,
          rEver, vTerminal, rTerminal, vobs, loop, seen, clock, scall, issued,
          overwritten, env, enabled, analysisIn, analysisOut, bar,
          activeEditSessions, icall, sent, everSessions, endedSessions, conn>>

serverVars == <<activeVideoOperations, activeResearchOperations>>
remoteVars == <<videoRemote, researchRemote>>
callVars == <<vcall, rcall>>
countVars == <<videoFetches, researchSaves>>
histVars == <<vEver, rEver, vTerminal, rTerminal, vobs>>
loopVars == <<loop, seen>>
startVars == <<clock, scall, issued, overwritten>>
groupVars == <<env, enabled>>
analyzeVars == <<analysisIn, analysisOut>>
imageVars == <<activeEditSessions, icall, sent, everSessions, endedSessions>>
lateVars == <<bar, imageVars, conn>>
auxVars == <<startVars, groupVars, analyzeVars, lateVars>>
jobVars == <<serverVars, remoteVars, callVars, countVars, histVars, loopVars>>

\* ------------------------------------------------------------------ job start values
\* `operation.name` / `interaction.id` absent or empty (both falsy)
NoName == ""
\* the message of the error the remote start call rejects with
StartErrMsg == "quota exceeded"

\* what a start invocation hands to its caller: {id, status: 'pending'}, or
\* a thrown error
StartResult(id, status, error) == [id |-> id, status |-> status, error |-> error]
NoStartResult == StartResult(NoName, "none", NoErr)

\* cause: the error of the remote start call; registered: the invocation
\* stored a registry entry
IdleStartCall ==
  [pc |-> "idle", kind |-> "video", cause |-> NoErr, res |-> NoStartResult,
   registered |-> FALSE]

InitStart ==
  /\ clock = 1
  /\ scall = [c \in Callers |-> IdleStartCall]
  /\ issued = <<>>
  /\ overwritten = {}

\* ------------------------------------------------------------------ tool group values
\* an environment variable: unset, or a text given as a sequence of pieces
\* (a blank, a comma, or a word)
EnvUnset == [defined |-> FALSE, text |-> <<>>]
EnvValue(t) == [defined |-> TRUE, text |-> t]

\* outcome of getEnabledToolGroups: not called, a Set of names, or a throw
NoGroupsResult == [kind |-> "none", groups |-> {}]
GroupsResult(g) == [kind |-> "set", groups |-> g]
GroupsThrew == [kind |-> "threw", groups |-> {}]

InitEnv ==
  /\ env = [GEMINI_TOOL_PRESET |-> EnvUnset, GEMINI_ENABLED_TOOLS |-> EnvUnset]
  /\ enabled = NoGroupsResult

\* ------------------------------------------------------------------ analysis values
\* an optional string argument: undefined, or a string
Undefined == [defined |-> FALSE, text |-> ""]
Str(t) == [defined |-> TRUE, text |-> t]

\* PromptBuildResult, or the thrown error
NoPromptResult ==
  [kind |-> "none", prompt |-> "", fileCount |-> 0, hasInlineCode |-> FALSE, error |-> NoErr]
PromptResult(prompt, fileCount, hasInlineCode) ==
  [kind |-> "result", prompt |-> prompt, fileCount |-> fileCount,
   hasInlineCode |-> hasInlineCode, error |-> NoErr]
PromptThrew(msg) ==
  [kind |-> "threw", prompt |-> "", fileCount |-> 0, hasInlineCode |-> FALSE, error |-> msg]

InitAnalysis ==
  /\ analysisIn = [fileContents |-> <<>>, code |-> Undefined, language |-> Undefined,
                   focus |-> "general"]
  /\ analysisOut = NoPromptResult

\* ------------------------------------------------------------------ progress, image-edit and client values
\* the progress line: which command, its attempt counter, Progress.current
IdleBar == [kind |-> "none", attempts |-> 0, current |-> 0]

\* a tool invocation of the image-edit group and the response it returned
NoImageResponse == [kind |-> "none", isError |-> FALSE, id |-> "", ids |-> {}]
ImageResponse(kind, isError, id, ids) ==
  [kind |-> kind, isError |-> isError, id |-> id, ids |-> ids]
\* (cause: what the awaited chat.sendMessage, or the save, came to)
IdleImageCall ==
  [pc |-> "idle", op |-> "none", id |-> "", cause |-> "none", res |-> NoImageResponse]

\* initGeminiClient: not called
IdleConn ==
  [pc |-> "idle", attempts |-> 0, connected |-> FALSE, outcomes |-> <<>>,
   error |-> NoErr]

InitLate ==
  /\ bar = IdleBar
  /\ activeEditSessions = EmptyMap
  /\ icall = [c \in Callers |-> IdleImageCall]
  /\ sent = EmptyMap
  /\ everSessions = {}
  /\ endedSessions = {}
  /\ conn = IdleConn

IdleLoop ==
  [pc |-> "idle", kind |-> "video", id |-> "a", attempts |-> 0,
   outcome |-> "none", error |-> NoErr, path |-> NoPath, probes |-> 0,
   cause |-> "none", allNotDone |-> TRUE, firstOkAt |-> 0, fetchFailed |-> FALSE,
   firstErrAt |-> 0, threw |-> FALSE, interruptedAt |-> "none", runs |-> 0]

InitJobs ==
  /\ activeVideoOperations = EmptyMap
  /\ activeResearchOperations = {}
  /\ videoRemote = [id \in JobIds |-> "none"]
  /\ researchRemote = [id \in JobIds |-> "none"]
  /\ vcall = [c \in AllCallers |-> IdleVideoCall]
  /\ rcall = [c \in AllCallers |-> IdleResearchCall]
  /\ videoFetches = [id \in JobIds |-> 0]
  /\ researchSaves = [id \in JobIds |-> 0]
  /\ vEver = {}
  /\ rEver = {}
  /\ vTerminal = {}
  /\ rTerminal = {}
  /\ vobs = [id \in JobIds |-> "none"]
  /\ loop = IdleLoop
  /\ seen = {}

Init ==
  /\ InitJobs
  /\ InitStart
  /\ InitEnv
  /\ InitAnalysis
  /\ InitLate

\* ------------------------------------------------------------------ remote
VideoRemoteFinish(id, s) ==
  /\ videoRemote[id] = "running"
  /\ s \in {"doneOk", "doneNoUri", "doneErr"}
  /\ videoRemote' = [videoRemote EXCEPT ![id] = s]
  /\ UNCHANGED <<auxVars, serverVars, researchRemote, callVars, countVars, histVars, loopVars>>

ResearchRemoteFinish(id, s) ==
  /\ researchRemote[id] = "in_progress"
  /\ s \in {"completed", "failed", "cancelled"}
  /\ researchRemote' = [researchRemote EXCEPT ![id] = s]
  /\ UNCHANGED <<auxVars, serverVars, videoRemote, callVars, countVars, histVars, loopVars>>

\* ------------------------------------------------------------------ startVideoGeneration
\* `video-${Date.now()}` / `research-${Date.now()}`
FallbackId(kind, now) == kind \o "-" \o ToString(now)

\* `operation.name || fallback` / `interaction.id || fallback`
OperationName(name, kind, now) == IF name = NoName THEN FallbackId(kind, now) ELSE name

\* a start that returns the id without storing the operation
RegistryStartSkipped(reg, id, op) == reg

\* line 451: activeVideoOperations.set(operationName, operation)
RegistryAfterStart(reg, id, op) == MapSet(reg, id, op)

\* generateVideos succeeded and named the operation id; the operation object
\* is stored and {operationName, status: 'pending'} returned
StartVideoGeneration(id) ==
  /\ videoRemote[id] = "none"
  /\ videoRemote' = [videoRemote EXCEPT ![id] = "running"]
  /\ activeVideoOperations' =
        RegistryAfterStart(activeVideoOperations, OperationName(id, "video", clock),
                           StartedOperation)
  /\ vEver' = vEver \cup {id}
  /\ vobs' = [vobs EXCEPT ![id] = "pending"]
  /\ UNCHANGED <<auxVars, activeResearchOperations, researchRemote, callVars, countVars,
                 rEver, vTerminal, rTerminal>>

\* ------------------------------------------------------------------ checkVideoStatus
\* a result is the job's own terminal result: completed, or failed with the
\* remote's error (not the NotFound result, not a thrown error)
IsNotFoundVideo(res) == res.status = "failed" /\ res.error = NotFoundMsg
IsTerminalVideo(res) ==
  \/ res.status = "completed"
  \/ res.status = "failed" /\ ~IsNotFoundVideo(res)

\* the caller receives res from call c
VideoReturn(c, id, res) ==
  /\ vTerminal' = IF IsTerminalVideo(res) THEN vTerminal \cup {id} ELSE vTerminal
  /\ vobs' = IF id \in vEver /\ res.status # "threw"
             THEN [vobs EXCEPT ![id] = IF IsNotFoundVideo(res) THEN "notFound"
                                       ELSE res.status]
             ELSE vobs

\* `if (!operation)`: the lookup found nothing
OperationMissing(id) == ~MapHas(activeVideoOperations, id)

\* lines 471-488: look the operation up; NotFound, or suspend at the probe
VideoCheckCall(c, id) ==
  /\ vcall[c].pc \in {"idle", "done"}
  /\ IF OperationMissing(id)
     THEN /\ vcall' = [vcall EXCEPT ![c] =
                 [IdleVideoCall EXCEPT !.pc = "done", !.id = id, !.res = VideoNotFound,
                                       !.late = id \in vTerminal, !.unreg = id \notin vEver]]
          /\ VideoReturn(c, id, VideoNotFound)
     ELSE /\ vcall' = [vcall EXCEPT ![c] =
                 [IdleVideoCall EXCEPT !.pc = "probe", !.id = id,
                                       !.op = activeVideoOperations[id],
                                       !.late = id \in vTerminal, !.unreg = id \notin vEver]]
          /\ UNCHANGED <<vTerminal, vobs>>
  /\ UNCHANGED <<auxVars, serverVars, remoteVars, rcall, countVars, vEver, rEver, rTerminal>>

\* the remote service processes the getVideosOperation request
VideoProbeServe(c) ==
  /\ vcall[c].pc = "probe"
  /\ vcall' = [vcall EXCEPT ![c].pc = "probed",
                            ![c].status = RemoteVideoStatus(videoRemote[vcall[c].id])]
  /\ UNCHANGED <<auxVars, serverVars, remoteVars, rcall, countVars, histVars>>

\* a catch block that gives the job up: the entry is removed before the rethrow
RegistryDroppedOnThrow(reg, id) == MapDelete(reg, id)

\* lines 549-552: the catch block logs and rethrows; the Map is not touched
RegistryAfterThrow(reg, id) == reg

\* getVideosOperation rejects: caught at line 549 and rethrown
VideoProbeThrow(c) ==
  /\ vcall[c].pc = "probe"
  /\ vcall' = [vcall EXCEPT ![c].pc = "done", ![c].res = VideoThrew]
  /\ VideoReturn(c, vcall[c].id, VideoThrew)
  /\ activeVideoOperations' = RegistryAfterThrow(activeVideoOperations, vcall[c].id)
  /\ UNCHANGED <<auxVars, activeResearchOperations, remoteVars, rcall, countVars, vEver,
                 rEver, rTerminal>>

\* a done answer without a video reported as a failure
FailedWithoutPayload(status) == VideoResult("failed", "Unknown error", NoUri, NoPath)

\* lines 506-509, 537-542: done, no error, no uri: completed, filePath undefined
ResultWithoutPayload(status) == VideoResult("completed", NoErr, status.uri, NoPath)

\* a terminal answer that empties the whole Map
RegistryClearedWhenDone(reg, id, status) ==
  IF status.done THEN EmptyMap ELSE MapSet(reg, id, status)

\* line 491 then 493-495: store the status, remove the entry when done
RegistryAfterProbe(reg, id, status) ==
  IF status.done THEN MapDelete(MapSet(reg, id, status), id)
  ELSE MapSet(reg, id, status)

\* lines 490-548 up to the fetch: the probe's answer arrives
VideoProbeResume(c) ==
  LET id == vcall[c].id
      status == vcall[c].status
  IN
  /\ vcall[c].pc = "probed"
  /\ activeVideoOperations' = RegistryAfterProbe(activeVideoOperations, id, status)
  /\ IF status.done
     THEN IF status.error # NoErr
          THEN LET res == VideoResult("failed", ErrorText(status.error), NoUri, NoPath) IN
               /\ vcall' = [vcall EXCEPT ![c].pc = "done", ![c].res = res]
               /\ VideoReturn(c, id, res)
               /\ UNCHANGED videoFetches
          ELSE IF status.uri # NoUri
               THEN /\ vcall' = [vcall EXCEPT ![c].pc = "fetch"]
                    /\ videoFetches' = [videoFetches EXCEPT ![id] = Inc(@)]
                    /\ UNCHANGED <<vTerminal, vobs>>
               ELSE LET res == ResultWithoutPayload(status) IN
                    /\ vcall' = [vcall EXCEPT ![c].pc = "done", ![c].res = res]
                    /\ VideoReturn(c, id, res)
                    /\ UNCHANGED videoFetches
     ELSE LET res == VideoResult("processing", NoErr, NoUri, NoPath) IN
          /\ vcall' = [vcall EXCEPT ![c].pc = "done", ![c].res = res]
          /\ VideoReturn(c, id, res)
          /\ UNCHANGED videoFetches
  /\ UNCHANGED <<auxVars, activeResearchOperations, remoteVars, rcall, researchSaves,
                 vEver, rEver, rTerminal>>

\* the path is dropped on every branch, as on the failure branches
FilePathAlwaysDropped(outcome) == NoPath

\* lines 515-542: the path returned for a fetch that ended ok / notok / throw
FilePathAfterFetch(outcome) == IF outcome = "ok" THEN "path" ELSE NoPath

VideoFetchResume(c, outcome) ==
  LET id == vcall[c].id
      res == VideoResult("completed", NoErr, vcall[c].status.uri, FilePathAfterFetch(outcome))
  IN
  /\ vcall[c].pc = "fetch"
  /\ outcome \in {"ok", "notok", "throw"}
  /\ vcall' = [vcall EXCEPT ![c].pc = "done", ![c].res = res, ![c].fetch = outcome]
  /\ VideoReturn(c, id, res)
  /\ UNCHANGED <<auxVars, serverVars, remoteVars, rcall, countVars, vEver, rEver, rTerminal>>

\* ------------------------------------------------------------------ deep research
\* startDeepResearch: interactions.create succeeded and named the
\* interaction id; {id, status: 'pending'} is returned, nothing is stored
StartDeepResearch(id) ==
  /\ researchRemote[id] = "none"
  /\ researchRemote' = [researchRemote EXCEPT ![id] = "in_progress"]
  /\ rEver' = rEver \cup {id}
  /\ UNCHANGED <<auxVars, activeVideoOperations, videoRemote, callVars, countVars,
                 vEver, vTerminal, rTerminal, vobs>>

\* gemini-deep-research handler: startDeepResearch, then the tool records
\* the id for later polling
StartDeepResearchTool(id) ==
  /\ StartDeepResearch(id)
  /\ activeResearchOperations' = activeResearchOperations \cup {id}
  /\ UNCHANGED loopVars

IsNotFoundResearch(res) == res.status = "failed" /\ res.error = NotFoundMsg
IsTerminalResearch(res) == res.status \in {"completed", "failed"}

\* checkDeepResearch lines 641-681: the result for the interaction status
ResearchResultFor(status) ==
  CASE status = "completed" -> ResearchResult("completed", NoErr, "path")
    [] status \in {"failed", "cancelled"} -> ResearchResult("failed", ResearchFailedMsg, NoPath)
    [] OTHER -> ResearchResult("processing", NoErr, NoPath)

\* gemini-check-research lines 137-139 and 177-178: the tool forgets the id
\* once checkDeepResearch reported completed or failed
ToolMapAfterCheck(m, id, res) ==
  IF res.status \in {"completed", "failed"} THEN m \ {id} ELSE m

\* checkDeepResearch line 639: the call suspends at interactions.get at once
ResearchCheckCall(c, id) ==
  /\ rcall[c].pc \in {"idle", "done"}
  /\ rcall' = [rcall EXCEPT ![c] =
        [IdleResearchCall EXCEPT !.pc = "get", !.id = id,
                                 !.late = id \in rTerminal, !.unreg = id \notin rEver]]
  /\ UNCHANGED <<auxVars, serverVars, remoteVars, vcall, countVars, histVars>>

\* interactions.get answered: lines 641-681, then the tool's bookkeeping
\* when the caller is a tool invocation
ResearchGetResume(c) ==
  LET id == rcall[c].id
      known == researchRemote[id] # "none"
      res == IF known THEN ResearchResultFor(researchRemote[id]) ELSE ResearchThrew
  IN
  /\ rcall[c].pc = "get"
  /\ rcall' = [rcall EXCEPT ![c].pc = "done", ![c].res = res,
                            ![c].status = researchRemote[id]]
  /\ researchSaves' = IF res.status = "completed"
                      THEN [researchSaves EXCEPT ![id] = Inc(@)] ELSE researchSaves
  /\ rTerminal' = IF IsTerminalResearch(res) THEN rTerminal \cup {id} ELSE rTerminal
  /\ activeResearchOperations' =
        IF c \in Callers THEN ToolMapAfterCheck(activeResearchOperations, id, res)
        ELSE activeResearchOperations
  /\ UNCHANGED <<auxVars, activeVideoOperations, remoteVars, vcall, videoFetches,
                 vEver, rEver, vTerminal, vobs>>

\* interactions.get rejects (network): rethrown as 'Failed to check research status'
ResearchGetThrow(c) ==
  /\ rcall[c].pc = "get"
  /\ rcall' = [rcall EXCEPT ![c].pc = "done", ![c].res = ResearchThrew]
  /\ UNCHANGED <<auxVars, serverVars, remoteVars, vcall, countVars, histVars>>

\* ------------------------------------------------------------------ sequential use
\* one caller, a status check starts only after the previous one returned
SeqCaller == "t1"

NextSeq ==
  \/ \E id \in JobIds, s \in {"doneOk", "doneNoUri", "doneErr"} : VideoRemoteFinish(id, s)
  \/ \E id \in JobIds, s \in {"completed", "failed", "cancelled"} : ResearchRemoteFinish(id, s)
  \/ \E id \in JobIds : StartVideoGeneration(id) /\ UNCHANGED loopVars
  \/ \E id \in JobIds : StartDeepResearchTool(id)
  \/ \E id \in JobIds : rcall[SeqCaller].pc \in {"idle", "done"}
                        /\ VideoCheckCall(SeqCaller, id) /\ UNCHANGED loopVars
  \/ VideoProbeServe(SeqCaller) /\ UNCHANGED loopVars
  \/ VideoProbeThrow(SeqCaller) /\ UNCHANGED loopVars
  \/ VideoProbeResume(SeqCaller) /\ UNCHANGED loopVars
  \/ \E o \in {"ok", "notok", "throw"} : VideoFetchResume(SeqCaller, o) /\ UNCHANGED loopVars
  \/ \E id \in JobIds : vcall[SeqCaller].pc \in {"idle", "done"}
                        /\ ResearchCheckCall(SeqCaller, id) /\ UNCHANGED loopVars
  \/ ResearchGetResume(SeqCaller) /\ UNCHANGED loopVars
  \/ ResearchGetThrow(SeqCaller) /\ UNCHANGED loopVars

SpecSeq == Init /\ [][NextSeq]_vars

\* ------------------------------------------------------------------ overlapping tool calls
\* gemini-check-video: the tool's response for a checkVideoStatus result
VideoToolResponse(res) ==
  CASE res.status = "threw" ->
         [kind |-> "error", isError |-> TRUE, savedTo |-> NoPath, error |-> res.error]
    [] res.status = "completed" ->
         [kind |-> "complete", isError |-> FALSE, savedTo |-> res.filePath, error |-> NoErr]
    [] res.status = "failed" ->
         [kind |-> "failed", isError |-> TRUE, savedTo |-> NoPath,
          error |-> IF res.error = "" THEN "Unknown error" ELSE res.error]
    [] OTHER ->
         [kind |-> "generating", isError |-> FALSE, savedTo |-> NoPath, error |-> NoErr]

\* the server process: tool invocations of gemini-generate-video and
\* gemini-check-video, interleaved at their awaits
NextVideo ==
  \/ \E id \in JobIds, s \in {"doneOk", "doneNoUri", "doneErr"} : VideoRemoteFinish(id, s)
  \/ \E id \in JobIds : StartVideoGeneration(id) /\ UNCHANGED loopVars
  \/ \E c \in Callers, id \in JobIds : VideoCheckCall(c, id) /\ UNCHANGED loopVars
  \/ \E c \in Callers : VideoProbeServe(c) /\ UNCHANGED loopVars
  \/ \E c \in Callers : VideoProbeThrow(c) /\ UNCHANGED loopVars
  \/ \E c \in Callers : VideoProbeResume(c) /\ UNCHANGED loopVars
  \/ \E c \in Callers, o \in {"ok", "notok", "throw"} :
        VideoFetchResume(c, o) /\ UNCHANGED loopVars

SpecVideo == Init /\ [][NextVideo]_vars

\* ------------------------------------------------------------------ polling loops
\* off by one: the budget test lets one more tick through
LoopCondInclusive(attempts) == attempts <= MaxAttempts

\* a loop without a budget
LoopCondUnbounded(attempts) == TRUE

\* `while (attempts < maxAttempts)`
LoopCond(attempts) == attempts < MaxAttempts

\* videoCommand line 144
VideoLoopCompleted(res) == res.status = "completed" /\ res.filePath # NoPath

\* researchCommand line 350
ResearchLoopCompleted(res) == res.status = "completed"

\* which of the terminal outcomes a probe result stands for
VideoOutcomeClass(res) ==
  CASE res.status = "completed" /\ res.filePath # NoPath -> "completedWithArtifact"
    [] res.status = "completed" -> "completedWithoutArtifact"
    [] IsNotFoundVideo(res) -> "notFound"
    [] res.status = "failed" -> "failedWithReason"
    [] OTHER -> "none"

ResearchOutcomeClass(res) ==
  CASE res.status = "completed" /\ res.savedPath # NoPath -> "completedWithArtifact"
    [] res.status = "completed" -> "completedWithoutArtifact"
    [] IsNotFoundResearch(res) -> "notFound"
    [] res.status = "failed" -> "failedWithReason"
    [] OTHER -> "none"

\* a tick whose probe threw is given back to the budget
AttemptsRefundedOnThrow(attempts) == attempts - 1

\* videoCommand lines 171-173 / researchCommand lines 375-378: the catch
\* block leaves the attempt counter as the tick set it
AttemptsAfterThrow(attempts) == attempts

\* what the command shows when it ends
Report(l) == [outcome |-> l.outcome, error |-> l.error, path |-> l.path]

\* videoCommand lines 87-96 / researchCommand line 298: the job is started
LoopStart(kind, id) ==
  /\ loop.pc = "idle"
  /\ IF kind = "video"
     THEN StartVideoGeneration(id)
     ELSE StartDeepResearch(id) /\ UNCHANGED activeResearchOperations
  /\ loop' = [loop EXCEPT !.pc = "poll", !.kind = kind, !.id = id]
  /\ UNCHANGED seen

\* the start call throws: the outer catch prints the error and exits 1
LoopStartFail(kind) ==
  /\ loop.pc = "idle"
  /\ loop' = [loop EXCEPT !.pc = "exit", !.kind = kind, !.outcome = "startError",
                          !.error = "start failed"]
  /\ UNCHANGED <<auxVars, serverVars, remoteVars, callVars, countVars, histVars, seen>>

\* videoCommand lines 133-142: sleep, count the attempt, call checkVideoStatus
LoopTickVideo ==
  /\ loop.pc = "poll"
  /\ loop.kind = "video"
  /\ LoopCond(loop.attempts)
  /\ VideoCheckCall(LoopCaller, loop.id)
  /\ loop' = [loop EXCEPT !.pc = "await", !.attempts = @ + 1, !.probes = @ + 1]
  /\ UNCHANGED seen

\* researchCommand lines 339-348
LoopTickResearch ==
  /\ loop.pc = "poll"
  /\ loop.kind = "research"
  /\ LoopCond(loop.attempts)
  /\ ResearchCheckCall(LoopCaller, loop.id)
  /\ loop' = [loop EXCEPT !.pc = "await", !.attempts = @ + 1, !.probes = @ + 1]
  /\ UNCHANGED seen

\* videoCommand lines 142-173: the probe's result (or throw) is handled
LoopHandleVideo ==
  LET call == vcall[LoopCaller]
      res == call.res
      cls == IF loop.cause = "none" THEN VideoOutcomeClass(res) ELSE loop.cause
      base == [loop EXCEPT
                 !.cause = cls,
                 !.allNotDone = @ /\ res.status = "processing",
                 !.fetchFailed = @ \/ call.fetch \in {"notok", "throw"},
                 !.firstOkAt = IF loop.allNotDone /\ call.status.done
                                  /\ call.status.error = NoErr /\ call.fetch = "ok"
                               THEN loop.probes ELSE @]
      next == IF res.status = "threw"
              THEN [base EXCEPT !.pc = "poll", !.threw = TRUE,
                                !.attempts = AttemptsAfterThrow(@)]
              ELSE IF VideoLoopCompleted(res)
                   THEN [base EXCEPT !.pc = "exit", !.outcome = "complete",
                                     !.path = res.filePath]
              ELSE IF res.status = "failed"
                   THEN [base EXCEPT !.pc = "exit", !.outcome = "failed",
                                     !.error = IF res.error = "" THEN "Unknown error"
                                               ELSE res.error]
              ELSE [base EXCEPT !.pc = "poll"]
  IN
  /\ loop.pc = "await"
  /\ loop.kind = "video"
  /\ call.pc = "done"
  /\ loop' = next
  /\ seen' = IF next.pc = "exit" THEN seen \cup {<<cls, Report(next)>>} ELSE seen
  /\ UNCHANGED <<auxVars, serverVars, remoteVars, callVars, countVars, histVars>>

\* researchCommand lines 348-378
LoopHandleResearch ==
  LET call == rcall[LoopCaller]
      res == call.res
      cls == IF loop.cause = "none" THEN ResearchOutcomeClass(res) ELSE loop.cause
      base == [loop EXCEPT !.cause = cls,
                           !.allNotDone = @ /\ res.status = "processing",
                           !.firstErrAt = IF @ = 0 /\ res.status # "threw"
                                             /\ call.status \in {"failed", "cancelled"}
                                          THEN loop.probes ELSE @]
      next == IF res.status = "threw"
              THEN [base EXCEPT !.pc = "poll", !.threw = TRUE,
                                !.attempts = AttemptsAfterThrow(@)]
              ELSE IF ResearchLoopCompleted(res)
                   THEN [base EXCEPT !.pc = "exit", !.outcome = "complete",
                                     !.path = res.savedPath]
              ELSE IF res.status = "failed"
                   THEN [base EXCEPT !.pc = "exit", !.outcome = "failed",
                                     !.error = IF res.error = "" THEN "Unknown error"
                                               ELSE res.error]
              ELSE [base EXCEPT !.pc = "poll"]
  IN
  /\ loop.pc = "await"
  /\ loop.kind = "research"
  /\ call.pc = "done"
  /\ loop' = next
  /\ seen' = IF next.pc = "exit" THEN seen \cup {<<cls, Report(next)>>} ELSE seen
  /\ UNCHANGED <<auxVars, serverVars, remoteVars, callVars, countVars, histVars>>

\* videoCommand lines 176-178 / researchCommand lines 381-384: the budget is
\* used up; a warning is printed and the command returns
LoopTimeout ==
  LET cls == IF loop.cause = "none" THEN "timedOut" ELSE loop.cause
      next == [loop EXCEPT !.pc = "exit", !.outcome = "timeout", !.cause = cls]
  IN
  /\ loop.pc = "poll"
  /\ ~LoopCond(loop.attempts)
  /\ loop' = next
  /\ seen' = seen \cup {<<cls, Report(next)>>}
  /\ UNCHANGED <<auxVars, serverVars, remoteVars, callVars, countVars, histVars>>

\* Ctrl+C (videoCommand line 123, researchCommand line 328): the commands
\* install no handler and pass no signal into the loop, so the runtime ends
\* the process wherever the loop stands; a probe in flight is abandoned
LoopInterrupt ==
  /\ loop.pc \in {"poll", "await"}
  /\ loop' = [loop EXCEPT !.pc = "exit", !.outcome = "interrupted",
                          !.interruptedAt = loop.pc]
  /\ vcall' = [vcall EXCEPT ![LoopCaller] = IdleVideoCall]
  /\ rcall' = [rcall EXCEPT ![LoopCaller] = IdleResearchCall]
  /\ UNCHANGED <<auxVars, serverVars, remoteVars, countVars, histVars, seen>>

\* the command is run again in a new process: the in-memory maps are empty,
\* the remote jobs live on
LoopRestart ==
  /\ loop.pc = "exit"
  /\ loop.runs < MaxRuns
  /\ loop' = [IdleLoop EXCEPT !.runs = loop.runs + 1]
  /\ activeVideoOperations' = EmptyMap
  /\ activeResearchOperations' = {}
  /\ vcall' = [c \in AllCallers |-> IdleVideoCall]
  /\ rcall' = [c \in AllCallers |-> IdleResearchCall]
  /\ vEver' = {}
  /\ rEver' = {}
  /\ vTerminal' = {}
  /\ rTerminal' = {}
  /\ vobs' = [id \in JobIds |-> "none"]
  /\ UNCHANGED <<auxVars, remoteVars, countVars, seen>>

NextLoop ==
  \/ \E id \in JobIds, s \in {"doneOk", "doneNoUri", "doneErr"} : VideoRemoteFinish(id, s)
  \/ \E id \in JobIds, s \in {"completed", "failed", "cancelled"} : ResearchRemoteFinish(id, s)
  \/ \E kind \in {"video", "research"}, id \in JobIds : LoopStart(kind, id)
  \/ \E kind \in {"video", "research"} : LoopStartFail(kind)
  \/ LoopTickVideo
  \/ LoopTickResearch
  \/ VideoProbeServe(LoopCaller) /\ UNCHANGED loopVars
  \/ VideoProbeThrow(LoopCaller) /\ UNCHANGED loopVars
  \/ VideoProbeResume(LoopCaller) /\ UNCHANGED loopVars
  \/ \E o \in {"ok", "notok", "throw"} : VideoFetchResume(LoopCaller, o) /\ UNCHANGED loopVars
  \/ ResearchGetResume(LoopCaller) /\ UNCHANGED loopVars
  \/ ResearchGetThrow(LoopCaller) /\ UNCHANGED loopVars
  \/ LoopHandleVideo
  \/ LoopHandleResearch
  \/ LoopTimeout
  \/ LoopRestart

SpecLoop == Init /\ [][NextLoop]_vars

\* the commands with the user free to press Ctrl+C while they wait
NextCancel ==
  \/ NextLoop
  \/ LoopInterrupt

SpecCancel == Init /\ [][NextCancel]_vars

\* the steps the event loop and the remote service take on their own: the
\* sleep timer fires, an awaited call is answered, the continuation runs
LoopProgress ==
  \/ LoopTickVideo
  \/ LoopTickResearch
  \/ VideoProbeServe(LoopCaller) /\ UNCHANGED loopVars
  \/ VideoProbeResume(LoopCaller) /\ UNCHANGED loopVars
  \/ \E o \in {"ok", "notok", "throw"} : VideoFetchResume(LoopCaller, o) /\ UNCHANGED loopVars
  \/ ResearchGetResume(LoopCaller) /\ UNCHANGED loopVars
  \/ LoopHandleVideo
  \/ LoopHandleResearch
  \/ LoopTimeout

SpecLoopFair == SpecLoop /\ WF_vars(LoopProgress)

\* ------------------------------------------------------------------ job starts
\* startDeepResearch line 627: the caught error is replaced by a new Error
WrapStartError(message) == "Deep research not available: " \o message

\* startVideoGeneration line 461: `throw error`
RethrowStartError(message) == message

ThrownStartError(kind, message) ==
  IF kind = "video" THEN RethrowStartError(message) ELSE WrapStartError(message)

StartsInFlight == Cardinality({c \in Callers : scall[c].pc = "await"})

\* Date.now() advances
ClockTick ==
  /\ clock < MaxClock
  /\ clock' = clock + 1
  /\ UNCHANGED <<scall, issued, overwritten, groupVars, analyzeVars, lateVars, jobVars>>

\* gemini-generate-video / gemini-deep-research invoked: the start function
\* runs up to the await of the remote start call
StartCall(c, kind) ==
  /\ scall[c].pc \in {"idle", "done"}
  /\ Len(issued) + StartsInFlight < MaxStarts
  /\ scall' = [scall EXCEPT ![c] = [IdleStartCall EXCEPT !.pc = "await", !.kind = kind]]
  /\ UNCHANGED <<clock, issued, overwritten, groupVars, analyzeVars, lateVars, jobVars>>

\* the remote names only jobs it has not named before
FreshName(name, remote) == name = NoName \/ (name \in JobIds /\ remote[name] = "none")

\* generateVideos resolves with operation.name = name (NoName: none given);
\* lines 448-458
StartVideoResume(c, name) ==
  LET id == OperationName(name, "video", clock) IN
  /\ scall[c].pc = "await"
  /\ scall[c].kind = "video"
  /\ FreshName(name, videoRemote)
  /\ activeVideoOperations' = RegistryAfterStart(activeVideoOperations, id, StartedOperation)
  /\ overwritten' = IF MapHas(activeVideoOperations, id)
                    THEN overwritten \cup {<<"video", id>>} ELSE overwritten
  /\ videoRemote' = IF name = NoName THEN videoRemote
                    ELSE [videoRemote EXCEPT ![name] = "running"]
  /\ issued' = Append(issued, [kind |-> "video", id |-> id])
  /\ scall' = [scall EXCEPT ![c].pc = "done",
                            ![c].res = StartResult(id, "pending", NoErr),
                            ![c].registered = TRUE]
  /\ vEver' = vEver \cup {id}
  /\ vobs' = MapSet(vobs, id, "pending")
  /\ UNCHANGED <<clock, groupVars, analyzeVars, lateVars, activeResearchOperations, researchRemote,
                 callVars, countVars, rEver, vTerminal, rTerminal, loopVars>>

\* the gemini-deep-research handler: interactions.create resolves with
\* interaction.id = name; startDeepResearch returns (lines 619-625) and the
\* handler stores the id (deep-research.ts lines 50-56)
StartResearchResume(c, name) ==
  LET id == OperationName(name, "research", clock) IN
  /\ scall[c].pc = "await"
  /\ scall[c].kind = "research"
  /\ FreshName(name, researchRemote)
  /\ activeResearchOperations' = activeResearchOperations \cup {id}
  /\ overwritten' = IF id \in activeResearchOperations
                    THEN overwritten \cup {<<"research", id>>} ELSE overwritten
  /\ researchRemote' = IF name = NoName THEN researchRemote
                       ELSE [researchRemote EXCEPT ![name] = "in_progress"]
  /\ issued' = Append(issued, [kind |-> "research", id |-> id])
  /\ scall' = [scall EXCEPT ![c].pc = "done",
                            ![c].res = StartResult(id, "pending", NoErr),
                            ![c].registered = TRUE]
  /\ rEver' = rEver \cup {id}
  /\ UNCHANGED <<clock, groupVars, analyzeVars, lateVars, activeVideoOperations, videoRemote,
                 callVars, countVars, vEver, vTerminal, rTerminal, vobs, loopVars>>

\* the remote start call rejects: the catch block of the start function
\* throws (lines 459-462, 626-629); nothing is stored
StartFail(c) ==
  /\ scall[c].pc = "await"
  /\ scall' = [scall EXCEPT ![c].pc = "done",
                            ![c].cause = StartErrMsg,
                            ![c].res = StartResult(NoName, "threw",
                                          ThrownStartError(scall[c].kind, StartErrMsg)),
                            ![c].registered = FALSE]
  /\ UNCHANGED <<clock, issued, overwritten, groupVars, analyzeVars, lateVars, jobVars>>

NextStart ==
  \/ ClockTick
  \/ \E c \in Callers, kind \in {"video", "research"} : StartCall(c, kind)
  \/ \E c \in Callers, name \in JobIds \cup {NoName} : StartVideoResume(c, name)
  \/ \E c \in Callers, name \in JobIds \cup {NoName} : StartResearchResume(c, name)
  \/ \E c \in Callers : StartFail(c)

SpecStart == Init /\ [][NextStart]_vars

\* ------------------------------------------------------------------ tool groups
Blank == " "
Comma == ","
\* the pieces the two environment texts are made of
PresetPieces == {Blank, "minimal", "research", "MINIMAL", "constructor"}
ToolPieces == {Blank, Comma, "query", "search", "Query", "constructor"}
\* longest GEMINI_TOOL_PRESET / GEMINI_ENABLED_TOOLS text, in pieces
MaxPresetLen == 2
MaxToolsLen == 3

SeqsUpTo(S, n) == UNION {[1..k -> S] : k \in 0..n}
EnvInputs(S, n) == {EnvUnset} \cup {EnvValue(t) : t \in SeqsUpTo(S, n)}

\* groupId -> registerFn
TOOL_GROUPS ==
  "query" :> "registerQueryTool" @@
  "brainstorm" :> "registerBrainstormTool" @@
  "analyze" :> "registerAnalyzeTool" @@
  "summarize" :> "registerSummarizeTool" @@
  "image-gen" :> "registerImageGenTool" @@
  "image-edit" :> "registerImageEditTool" @@
  "video-gen" :> "registerVideoGenTool" @@
  "code-exec" :> "registerCodeExecTool" @@
  "search" :> "registerSearchTool" @@
  "structured" :> "registerStructuredTool" @@
  "youtube" :> "registerYouTubeTool" @@
  "document" :> "registerDocumentTool" @@
  "url-context" :> "registerUrlContextTool" @@
  "cache" :> "registerCacheTool" @@
  "speech" :> "registerSpeechTool" @@
  "token-count" :> "registerTokenCountTool" @@
  "deep-research" :> "registerDeepResearchTool" @@
  "image-analyze" :> "registerImageAnalyzeTool"

\* preset name -> group ids
PRESETS ==
  "minimal" :> <<"query", "brainstorm">> @@
  "text" :> <<"query", "brainstorm", "analyze", "summarize", "structured">> @@
  "image" :> <<"query", "image-gen", "image-edit", "image-analyze">> @@
  "research" :> <<"query", "search", "deep-research", "url-context", "document">> @@
  "media" :> <<"query", "image-gen", "image-edit", "image-analyze", "video-gen",
               "youtube", "speech">> @@
  "full" :> <<"query", "brainstorm", "analyze", "summarize", "image-gen", "image-edit",
              "video-gen", "code-exec", "search", "structured", "youtube", "document",
              "url-context", "cache", "speech", "token-count", "deep-research",
              "image-analyze">>

\* Object.keys(obj)
ObjectKeys(obj) == DOMAIN obj

\* property names every object literal inherits from Object.prototype
ObjectPrototype ==
  {"constructor", "toString", "toLocaleString", "valueOf", "hasOwnProperty",
   "isPrototypeOf", "propertyIsEnumerable", "__proto__"}

\* obj[name] of an object literal: its own entry, an inherited member (a
\* function or the prototype object: truthy, no forEach), or undefined
Lookup(obj, name) ==
  IF name \in DOMAIN obj THEN [kind |-> "own", value |-> obj[name]]
  ELSE IF name \in ObjectPrototype THEN [kind |-> "inherited", value |-> <<>>]
  ELSE [kind |-> "undefined", value |-> <<>>]

Truthy(l) == l.kind # "undefined"

\* String.prototype.trim on a text of pieces
RECURSIVE TrimStart(_)
TrimStart(t) ==
  IF t = <<>> THEN t
  ELSE IF Head(t) = Blank THEN TrimStart(Tail(t)) ELSE t

RECURSIVE TrimEnd(_)
TrimEnd(t) ==
  IF t = <<>> THEN t
  ELSE IF t[Len(t)] = Blank THEN TrimEnd(SubSeq(t, 1, Len(t) - 1)) ELSE t

Trim(t) == TrimEnd(TrimStart(t))

\* split(','): the parts between the commas, empty parts included
RECURSIVE Split(_)
Split(t) ==
  LET commas == {i \in DOMAIN t : t[i] = Comma} IN
  IF commas = {} THEN <<t>>
  ELSE LET i == CHOOSE k \in commas : \A j \in commas : k <= j
       IN <<SubSeq(t, 1, i - 1)>> \o Split(SubSeq(t, i + 1, Len(t)))

\* the string a text of pieces spells
RECURSIVE Text(_)
Text(t) == IF t = <<>> THEN "" ELSE Head(t) \o Text(Tail(t))

\* `process.env.X?.trim()`: undefined when unset, else the trimmed pieces
EnvTrimmed(v) == IF v.defined THEN EnvValue(Trim(v.text)) ELSE EnvUnset

\* `!value` for string | undefined
Empty(v) == ~v.defined \/ v.text = <<>>

\* .split(',').map((g) => g.trim()).filter(Boolean)
ExplicitGroups(t) ==
  LET parts == Split(t) IN
  {Text(Trim(parts[i])) : i \in DOMAIN parts} \ {""}

Range(f) == {f[i] : i \in DOMAIN f}

getEnabledToolGroups(e) ==
  LET presetName == EnvTrimmed(e.GEMINI_TOOL_PRESET)
      explicitTools == EnvTrimmed(e.GEMINI_ENABLED_TOOLS)
      presetGroups == Lookup(PRESETS, Text(presetName.text))
      fromPreset == IF Empty(presetName) THEN {} ELSE Range(presetGroups.value)
      fromExplicit ==
        IF Empty(explicitTools) THEN {}
        ELSE {g \in ExplicitGroups(explicitTools.text) : Truthy(Lookup(TOOL_GROUPS, g))}
  IN
  IF Empty(presetName) /\ Empty(explicitTools)
  THEN GroupsResult(ObjectKeys(TOOL_GROUPS))
  ELSE IF ~Empty(presetName) /\ presetGroups.kind = "inherited"
  THEN GroupsThrew
  ELSE IF ~Empty(presetName) /\ presetGroups.kind = "undefined"
  THEN GroupsResult(ObjectKeys(TOOL_GROUPS))
  ELSE GroupsResult(fromPreset \cup fromExplicit)

InitGroups ==
  /\ InitJobs
  /\ InitStart
  /\ InitAnalysis
  /\ InitLate
  /\ env \in [GEMINI_TOOL_PRESET : EnvInputs(PresetPieces, MaxPresetLen),
              GEMINI_ENABLED_TOOLS : EnvInputs(ToolPieces, MaxToolsLen)]
  /\ enabled = NoGroupsResult

\* the server reads its configuration
CallGetEnabledToolGroups ==
  /\ enabled.kind = "none"
  /\ enabled' = getEnabledToolGroups(env)
  /\ UNCHANGED <<env, startVars, analyzeVars, lateVars, jobVars>>

NextGroups == CallGetEnabledToolGroups

SpecGroups == InitGroups /\ [][NextGroups]_vars

\* ------------------------------------------------------------------ code analysis prompt
\* FileContent records handed to buildAnalysisPrompt
Files ==
  {[filename |-> "a.ts", content |-> "const a = 1;", ext |-> "ts"],
   [filename |-> "Makefile", content |-> "all:", ext |-> ""]}
Codes == {Undefined, Str(""), Str("const x = 1;")}
Languages == {Undefined, Str(""), Str("typescript")}
FocusArgs ==
  {Undefined, Str("quality"), Str("security"), Str("performance"), Str("bugs"),
   Str("general")}
\* longest file list
MaxFiles == 2

NoCodeMsg == "No code provided. Please specify 'code', 'filePath', or 'filePaths'."

\* the code fence of the prompt (three backquotes in the source)
Fence == "<fence>"

\* `!value` / `value ? .. : ..` for string | undefined
Falsy(v) == ~v.defined \/ v.text = ""

\* `a || b` on strings
OrElse(v, other) == IF Falsy(v) THEN other ELSE v.text

\* lines 643-649: one block per file
RECURSIVE FileBlocks(_, _)
FileBlocks(fileContents, language) ==
  IF fileContents = <<>> THEN ""
  ELSE LET f == Head(fileContents)
           langHint == OrElse(language, OrElse(Str(f.ext), ""))
       IN "### " \o f.filename \o "\n" \o Fence \o langHint \o "\n" \o f.content
            \o "\n" \o Fence \o "\n\n" \o FileBlocks(Tail(fileContents), language)

buildCodeSection(fileContents, code, language) ==
  LET langHint == OrElse(language, "")
      inline ==
        IF Falsy(code) THEN ""
        ELSE IF Len(fileContents) > 0
        THEN "### Inline Code\n" \o Fence \o langHint \o "\n" \o code.text \o "\n" \o Fence \o "\n\n"
        ELSE Fence \o langHint \o "\n" \o code.text \o "\n" \o Fence \o "\n\n"
  IN FileBlocks(fileContents, language) \o inline

buildAnalysisTarget(fileCount, language) ==
  LET langText == IF Falsy(language) THEN "code" ELSE language.text \o " code" IN
  IF fileCount > 0
  THEN "the following " \o (IF fileCount = 1 THEN "file" ELSE ToString(fileCount) \o " files")
  ELSE "the following " \o langText

getFocusInstructions(focus) ==
  CASE focus = "quality" ->
         "1. Code quality assessment\n2. Style and readability review\n3. Maintainability considerations\n4. Suggested improvements"
    [] focus = "security" ->
         "1. Security vulnerabilities identification\n2. Potential exploit vectors\n3. Security best practices assessment\n4. Security improvements"
    [] focus = "performance" ->
         "1. Performance bottlenecks\n2. Optimization opportunities\n3. Algorithmic complexity analysis\n4. Performance improvement suggestions"
    [] focus = "bugs" ->
         "1. Bugs and logical errors\n2. Edge cases that aren't handled\n3. Potential runtime errors\n4. Bug fix suggestions"
    [] OTHER ->
         "1. Overall code assessment\n2. Strengths and weaknesses\n3. Potential issues (bugs, security, performance)\n4. Suggested improvements"

\* a validation that lets an empty string through as code
NoCodeOnlyWhenUndefined(fileContents, code) == Len(fileContents) = 0 /\ ~code.defined

\* line 704: `fileContents.length === 0 && !code`
NoCodeProvided(fileContents, code) == Len(fileContents) = 0 /\ Falsy(code)

buildAnalysisPrompt(fileContents, code, language, focusArg) ==
  LET focus == IF focusArg.defined THEN focusArg.text ELSE "general" IN
  IF NoCodeProvided(fileContents, code) THEN PromptThrew(NoCodeMsg)
  ELSE PromptResult(
         "\nAnalyze " \o buildAnalysisTarget(Len(fileContents), language)
            \o " with a focus on " \o focus \o ":\n\n"
            \o buildCodeSection(fileContents, code, language)
            \o "\nPlease provide:\n" \o getFocusInstructions(focus) \o "\n",
         Len(fileContents),
         ~Falsy(code))

InitAnalyze ==
  /\ InitJobs
  /\ InitStart
  /\ InitEnv
  /\ InitLate
  /\ analysisIn \in [fileContents : SeqsUpTo(Files, MaxFiles), code : Codes,
                     language : Languages, focus : FocusArgs]
  /\ analysisOut = NoPromptResult

CallBuildAnalysisPrompt ==
  /\ analysisOut.kind = "none"
  /\ analysisOut' = buildAnalysisPrompt(analysisIn.fileContents, analysisIn.code,
                                        analysisIn.language, analysisIn.focus)
  /\ UNCHANGED <<analysisIn, startVars, groupVars, lateVars, jobVars>>

NextAnalyze == CallBuildAnalysisPrompt

SpecAnalyze == InitAnalyze /\ [][NextAnalyze]_vars

\* ------------------------------------------------------------------ progress line
\* `const maxAttempts = 60` (videoCommand), `= 180` (researchCommand)
VideoMaxAttempts == 60
ResearchMaxAttempts == 180
\* Math.min(95, attempts * 3) / Math.min(95, attempts * 2)
ProgressCap == 95
VideoProgressStep == 3
ResearchProgressStep == 2
\* progress({ total: 100, ... })
ProgressTotal == 100

Min(a, b) == IF a <= b THEN a ELSE b

MaxAttemptsOf(kind) == IF kind = "video" THEN VideoMaxAttempts ELSE ResearchMaxAttempts
ProgressStep(kind) == IF kind = "video" THEN VideoProgressStep ELSE ResearchProgressStep

\* a progress value without the cap
FakeProgressUncapped(kind, attempts) == attempts * ProgressStep(kind)

\* `const fakeProgress = Math.min(95, attempts * 3)`
FakeProgress(kind, attempts) == Min(ProgressCap, attempts * ProgressStep(kind))

\* Progress.update: `this.current = Math.min(value, this.total)`
ProgressUpdate(value) == Min(value, ProgressTotal)

\* p.start(...): the line is shown with current = 0
BarStart(kind) ==
  /\ bar.kind = "none"
  /\ bar' = [kind |-> kind, attempts |-> 0, current |-> 0]
  /\ UNCHANGED <<imageVars, conn, startVars, groupVars, analyzeVars, jobVars>>

\* one tick of the loop whose probe does not end it: the counter goes up
\* and the line is updated (videoCommand lines 133-139, researchCommand
\* lines 339-345)
BarTick ==
  /\ bar.kind # "none"
  /\ bar.attempts < MaxAttemptsOf(bar.kind)
  /\ bar' = [bar EXCEPT !.attempts = @ + 1,
                        !.current = ProgressUpdate(FakeProgress(bar.kind, bar.attempts + 1))]
  /\ UNCHANGED <<imageVars, conn, startVars, groupVars, analyzeVars, jobVars>>

NextProgress ==
  \/ \E kind \in {"video", "research"} : BarStart(kind)
  \/ BarTick

SpecProgress == Init /\ [][NextProgress]_vars

\* ------------------------------------------------------------------ image-edit sessions
\* session ids the start handler can generate, and one it never generates
SessionIds == {"s1", "s2"}
UnknownSession == "zz"
CallIds == SessionIds \cup {UnknownSession}
\* cap on the edit messages sent in one session
MaxMessages == 2

\* how the awaited first message of a start can end: an image part, a
\* rejected call, no parts, parts without image data, or saveImage throwing
StartOutcomes == {"image", "remoteError", "noParts", "noImage", "saveError"}
ContinueOutcomes == {"image", "textOnly", "remoteError", "noParts", "saveError"}

\* the stored session: its chat and which image it holds last
Session(sid, lastImage) == [chat |-> sid, lastImage |-> lastImage]

\* lines 151-156: activeEditSessions.set(sessionId, {...})
SessionsAfterStart(sessions, sid) == MapSet(sessions, sid, Session(sid, "first"))

\* line 323: activeEditSessions.delete(sessionId)
SessionsAfterEnd(sessions, sid) == MapDelete(sessions, sid)

StartsAwaited == {c \in Callers : icall[c].pc = "startAwait"}

\* gemini-start-image-edit, lines 94-124: without an API key the handler
\* returns the error at once; else the chat is created and the first message
\* awaited
ImageStartCall(c, hasKey) ==
  /\ icall[c].pc \in {"idle", "done"}
  /\ Cardinality(everSessions) + Cardinality(StartsAwaited) < Cardinality(SessionIds)
  /\ icall' = [icall EXCEPT ![c] =
        IF hasKey
        THEN [IdleImageCall EXCEPT !.pc = "startAwait", !.op = "start"]
        ELSE [IdleImageCall EXCEPT !.pc = "done", !.op = "start", !.cause = "noKey",
                                   !.res = ImageResponse("startError", TRUE, "", {})]]
  /\ UNCHANGED <<activeEditSessions, sent, everSessions, endedSessions, bar, conn,
                 startVars, groupVars, analyzeVars, jobVars>>

\* lines 126-190: the first message is answered; sid is the generated id
\* `edit-${Date.now()}-${random}`
ImageStartResume(c, outcome, sid) ==
  LET registers == outcome \in {"image", "saveError"} IN
  /\ icall[c].pc = "startAwait"
  /\ outcome \in StartOutcomes
  /\ sid \in SessionIds \ everSessions
  /\ activeEditSessions' = IF registers THEN SessionsAfterStart(activeEditSessions, sid)
                           ELSE activeEditSessions
  /\ everSessions' = IF registers THEN everSessions \cup {sid} ELSE everSessions
  /\ sent' = IF registers THEN MapSet(sent, sid, 0) ELSE sent
  /\ icall' = [icall EXCEPT ![c].pc = "done", ![c].cause = outcome,
                 ![c].id = IF outcome = "image" THEN sid ELSE "",
                 ![c].res = IF outcome = "image"
                            THEN ImageResponse("started", FALSE, sid, {})
                            ELSE ImageResponse("startError", TRUE, "", {})]
  /\ UNCHANGED <<endedSessions, bar, conn, startVars, groupVars, analyzeVars, jobVars>>

\* gemini-continue-image-edit, lines 205-224: look the session up; not
\* found, or send the edit message and await the answer
ImageContinueCall(c, sid) ==
  /\ icall[c].pc \in {"idle", "done"}
  /\ sid \in CallIds
  /\ IF ~MapHas(activeEditSessions, sid)
     THEN /\ icall' = [icall EXCEPT ![c] =
                 [IdleImageCall EXCEPT !.pc = "done", !.op = "continue", !.id = sid,
                           !.res = ImageResponse("sessionNotFound", TRUE, sid, {})]]
          /\ UNCHANGED sent
     ELSE /\ sent[sid] < MaxMessages
          /\ icall' = [icall EXCEPT ![c] =
                 [IdleImageCall EXCEPT !.pc = "continueAwait", !.op = "continue",
                                       !.id = sid]]
          /\ sent' = [sent EXCEPT ![sid] = @ + 1]
  /\ UNCHANGED <<activeEditSessions, everSessions, endedSessions, bar, conn,
                 startVars, groupVars, analyzeVars, jobVars>>

\* lines 232-299: the edit message is answered; an image is written into
\* the session object the handler holds (still the Map's value unless the
\* session was ended meanwhile)
ImageContinueResume(c, outcome) ==
  LET sid == icall[c].id
      stores == outcome \in {"image", "saveError"} /\ MapHas(activeEditSessions, sid)
  IN
  /\ icall[c].pc = "continueAwait"
  /\ outcome \in ContinueOutcomes
  /\ activeEditSessions' = IF stores
                           THEN [activeEditSessions EXCEPT ![sid].lastImage = "edited"]
                           ELSE activeEditSessions
  /\ icall' = [icall EXCEPT ![c].pc = "done", ![c].cause = outcome,
                 ![c].res = CASE outcome = "image" -> ImageResponse("updated", FALSE, sid, {})
                              [] outcome = "textOnly" -> ImageResponse("text", FALSE, "", {})
                              [] OTHER -> ImageResponse("continueError", TRUE, "", {})]
  /\ UNCHANGED <<sent, everSessions, endedSessions, bar, conn, startVars, groupVars,
                 analyzeVars, jobVars>>

\* gemini-end-image-edit, lines 309-334
ImageEnd(c, sid) ==
  /\ icall[c].pc \in {"idle", "done"}
  /\ sid \in CallIds
  /\ IF ~MapHas(activeEditSessions, sid)
     THEN /\ icall' = [icall EXCEPT ![c] =
                 [IdleImageCall EXCEPT !.pc = "done", !.op = "end", !.id = sid,
                           !.res = ImageResponse("notFoundOrClosed", FALSE, sid, {})]]
          /\ UNCHANGED <<activeEditSessions, endedSessions>>
     ELSE /\ icall' = [icall EXCEPT ![c] =
                 [IdleImageCall EXCEPT !.pc = "done", !.op = "end", !.id = sid,
                           !.res = ImageResponse("closed", FALSE, sid, {})]]
          /\ activeEditSessions' = SessionsAfterEnd(activeEditSessions, sid)
          /\ endedSessions' = endedSessions \cup {sid}
  /\ UNCHANGED <<sent, everSessions, bar, conn, startVars, groupVars, analyzeVars,
                 jobVars>>

\* gemini-list-image-sessions, lines 341-363
ImageList(c) ==
  LET sessions == DOMAIN activeEditSessions IN
  /\ icall[c].pc \in {"idle", "done"}
  /\ icall' = [icall EXCEPT ![c] =
        [IdleImageCall EXCEPT !.pc = "done", !.op = "list",
                  !.res = ImageResponse(IF sessions = {} THEN "noSessions" ELSE "list",
                                        FALSE, "", sessions)]]
  /\ UNCHANGED <<activeEditSessions, sent, everSessions, endedSessions, bar, conn,
                 startVars, groupVars, analyzeVars, jobVars>>

NextImage ==
  \/ \E c \in Callers, hasKey \in BOOLEAN : ImageStartCall(c, hasKey)
  \/ \E c \in Callers, o \in StartOutcomes, sid \in SessionIds : ImageStartResume(c, o, sid)
  \/ \E c \in Callers, sid \in CallIds : ImageContinueCall(c, sid)
  \/ \E c \in Callers, o \in ContinueOutcomes : ImageContinueResume(c, o)
  \/ \E c \in Callers, sid \in CallIds : ImageEnd(c, sid)
  \/ \E c \in Callers : ImageList(c)

SpecImage == Init /\ [][NextImage]_vars

\* ------------------------------------------------------------------ client initialisation
\* const maxAttempts = 3
InitMaxAttempts == 3

\* how one connection attempt can end: a response, an empty response, a
\* rejected request, the 10-second timer winning the race, or
\* generateContent throwing before anything is awaited
AttemptFailures == {"empty", "reject", "timeout", "syncThrow"}
AttemptOutcomes == {"ok"} \cup AttemptFailures

NoKeyMsg == "GEMINI_API_KEY environment variable is required"
SetupErrMsg == "setup error"

\* the message of the error the catch block sees
AttemptErrorMessage(o) ==
  CASE o = "empty" -> "Failed to connect to Gemini API: empty response"
    [] o = "timeout" -> "Connection timeout"
    [] o = "reject" -> "remote error"
    [] OTHER -> "request error"

\* lines 136-138
GaveUpMessage(msg) ==
  "Failed to connect to Gemini API after " \o ToString(InitMaxAttempts)
     \o " attempts: " \o msg

\* line 100: while (!connected && attempts < maxAttempts)
ConnectLoopCond(connected, attempts) == ~connected /\ attempts < InitMaxAttempts

\* a catch block that never gives up
GaveUpNever(attempts) == FALSE

\* line 135: if (attempts >= maxAttempts)
GaveUp(attempts) == attempts >= InitMaxAttempts

\* lines 117-142: what the attempt that ended as o leaves behind
AfterAttempt(cn, o) ==
  LET done == [cn EXCEPT !.outcomes = Append(@, o)] IN
  IF o = "ok"
  THEN [done EXCEPT !.connected = TRUE, !.pc = "loop"]
  ELSE IF GaveUp(cn.attempts)
       THEN [done EXCEPT !.pc = "threw", !.error = GaveUpMessage(AttemptErrorMessage(o))]
       ELSE [done EXCEPT !.pc = "sleep"]

lateButConn == <<bar, imageVars, startVars, groupVars, analyzeVars, jobVars>>

\* lines 66-98: the key check and the set-up before the loop
InitCall(hasKey, setupOk) ==
  /\ conn.pc = "idle"
  /\ conn' = IF ~hasKey THEN [conn EXCEPT !.pc = "threw", !.error = NoKeyMsg]
             ELSE IF ~setupOk THEN [conn EXCEPT !.pc = "threw", !.error = SetupErrMsg]
             ELSE [conn EXCEPT !.pc = "loop"]
  /\ UNCHANGED lateButConn

\* lines 100-117: the loop test; then attempts++ and the request, which
\* throws at once or is raced against the timer
InitLoop(sync) ==
  /\ conn.pc = "loop"
  /\ conn' = IF ~ConnectLoopCond(conn.connected, conn.attempts)
             THEN [conn EXCEPT !.pc = "returned"]
             ELSE LET counted == [conn EXCEPT !.attempts = @ + 1] IN
                  IF sync THEN AfterAttempt(counted, "syncThrow")
                  ELSE [counted EXCEPT !.pc = "race"]
  /\ UNCHANGED lateButConn

\* line 117: Promise.race settles
InitRaceSettles(o) ==
  /\ conn.pc = "race"
  /\ o \in AttemptOutcomes \ {"syncThrow"}
  /\ conn' = AfterAttempt(conn, o)
  /\ UNCHANGED lateButConn

\* line 142: the 2000 ms wait before the retry ends
InitRetryWake ==
  /\ conn.pc = "sleep"
  /\ conn' = [conn EXCEPT !.pc = "loop"]
  /\ UNCHANGED lateButConn

NextInit ==
  \/ \E hasKey \in BOOLEAN, setupOk \in BOOLEAN : InitCall(hasKey, setupOk)
  \/ \E sync \in BOOLEAN : InitLoop(sync)
  \/ \E o \in AttemptOutcomes : InitRaceSettles(o)
  \/ InitRetryWake

SpecInit == Init /\ [][NextInit]_vars

\* the event loop runs the continuation of every settled promise and fires
\* every timer
SpecInitFair == SpecInit /\ WF_vars(NextInit)

\* ------------------------------------------------------------------ claims
\* C1: under non-overlapping status checks the artifact fetch/save happens at
\* most once per job id (video fetch, research response file write)
C1_MaterializeAtMostOnceSeq ==
  \A id \in JobIds : videoFetches[id] <= 1 /\ researchSaves[id] <= 1

\* C3: a status check that starts after a check returned completed or failed
\* for the id returns the NotFound result (video and research)
C3_NotFoundAfterTerminal ==
  \A c \in AllCallers :
    /\ (vcall[c].pc = "done" /\ vcall[c].late) => IsNotFoundVideo(vcall[c].res)
    /\ (rcall[c].pc = "done" /\ rcall[c].late) => IsNotFoundResearch(rcall[c].res)

\* C4: a status check of an id never registered in this process returns the
\* NotFound result and does not throw (video and research)
C4_NeverRegisteredIsNotFound ==
  \A c \in AllCallers :
    /\ (vcall[c].pc = "done" /\ vcall[c].unreg) => IsNotFoundVideo(vcall[c].res)
    /\ (rcall[c].pc = "done" /\ rcall[c].unreg) => IsNotFoundResearch(rcall[c].res)

StatusRank(s) ==
  CASE s = "none" -> 0
    [] s = "pending" -> 1
    [] s = "processing" -> 2
    [] s \in {"completed", "failed"} -> 3
    [] OTHER -> 4

\* C5: per id the observed statuses never go backwards in the order pending,
\* processing, {completed | failed}, and a terminal status is never followed
\* by processing or by the other terminal status (the NotFound result, which
\* also carries status failed, is counted apart and may follow)
C5_StatusMonotonic ==
  [][\A id \in JobIds :
       /\ StatusRank(vobs'[id]) >= StatusRank(vobs[id])
       /\ (vobs[id] \in {"completed", "failed"} => vobs'[id] \in {vobs[id], "notFound"})]_vars

\* C2: with checkVideoStatus calls for one id in flight together the video
\* fetch is attempted at most once for that id
C2_FetchAtMostOnceOverlapping ==
  \A id \in JobIds : videoFetches[id] <= 1

\* C6: a video job that is done successfully but whose artifact fetch failed
\* is reported as completed without a path, not as a failure: by
\* checkVideoStatus, by the gemini-check-video response and by the polling loop
C6_FetchFailureReportedCompleted ==
  /\ \A c \in AllCallers :
       (vcall[c].pc = "done" /\ vcall[c].fetch \in {"notok", "throw"}) =>
          /\ vcall[c].res.status = "completed"
          /\ vcall[c].res.filePath = NoPath
          /\ VideoToolResponse(vcall[c].res).kind = "complete"
          /\ ~VideoToolResponse(vcall[c].res).isError
  /\ (loop.pc = "exit" /\ loop.kind = "video" /\ loop.fetchFailed) =>
          (loop.outcome = "complete" /\ loop.path = NoPath)

\* C7: two polling-loop runs that ended with different terminal outcomes
\* (completed with artifact, completed without artifact, failed with reason,
\* not found, timed out) never show the same report
C7_OutcomesDistinguishable ==
  \A p \in seen, q \in seen : p[2] = q[2] => p[1] = q[1]

\* C8: when every probe of a run reported not done, the loop ends after
\* exactly MaxAttempts probes with the Timeout outcome
C8_TimeoutAfterMaxProbes ==
  /\ loop.probes <= MaxAttempts
  /\ (loop.pc = "exit" /\ loop.outcome # "startError" /\ loop.allNotDone) =>
        (loop.probes = MaxAttempts /\ loop.outcome = "timeout")

C8_Witness ==
  /\ loop.pc = "exit"
  /\ loop.allNotDone
  /\ loop.outcome = "timeout"
  /\ loop.probes = MaxAttempts

\* C9: after a video polling loop ended by Timeout the registry still holds
\* the entry of its job id
C9_TimeoutKeepsEntry ==
  (loop.pc = "exit" /\ loop.kind = "video" /\ loop.outcome = "timeout") =>
     MapHas(activeVideoOperations, loop.id)

C11_ResearchFailureCause ==
  (loop.kind = "research" /\ loop.firstErrAt > 0) =>
     /\ loop.pc = "exit"
     /\ loop.outcome = "failed"
     /\ loop.probes = loop.firstErrAt
     /\ loop.error = rcall[LoopCaller].status

\* C18: once a probe of a run returned completed, failed or NotFound the loop
\* has stopped, with or without an artifact path in a completed result
C18_StopsAtFirstTerminal ==
  loop.cause \in {"completedWithArtifact", "completedWithoutArtifact",
                  "failedWithReason", "notFound"} =>
     /\ loop.pc = "exit"
     /\ loop.outcome \in {"complete", "failed"}

\* C20: a probe that throws does not end the loop and the tick counts as one
\* attempt: no run makes more than MaxAttempts probes, a run that ends by
\* Timeout has made exactly MaxAttempts, whether or not probes threw, and a
\* run never ends on a thrown probe
C20_ThrowCountsAsAttempt ==
  /\ loop.probes <= MaxAttempts
  /\ loop.attempts = loop.probes
  /\ (loop.pc = "exit" /\ loop.outcome = "timeout") => loop.probes = MaxAttempts
  /\ (loop.pc = "exit" /\ loop.outcome \in {"complete", "failed"}) =>
        (IF loop.kind = "video" THEN vcall[LoopCaller].res.status
         ELSE rcall[LoopCaller].res.status) # "threw"

C20_Witness ==
  /\ loop.pc = "exit"
  /\ loop.outcome = "timeout"
  /\ loop.threw
  /\ loop.probes = MaxAttempts

\* C19: when the remote probe of checkVideoStatus throws, the step that ends
\* the call leaves the registry exactly as it was (same keys, same stored
\* handles) and the caller gets the thrown error, not a failed status.
C19_ThrowLeavesRegistry ==
  [][\A c \in Callers :
        (vcall[c].pc = "probe" /\ vcall'[c].pc = "done") =>
           /\ activeVideoOperations' = activeVideoOperations
           /\ vcall'[c].res.status = "threw"
           /\ vcall'[c].res.status # "failed"]_vars

C19_Witness ==
  \E c \in Callers :
     /\ vcall[c].pc = "done"
     /\ vcall[c].res.status = "threw"
     /\ MapHas(activeVideoOperations, vcall[c].id)
     /\ activeVideoOperations[vcall[c].id] = vcall[c].op

\* C13: a successful start leaves an entry for the returned id in the
\* registry and the caller with status pending; a status check called for
\* that id before any other check of it has removed the entry goes on to the
\* remote probe instead of answering NotFound.
CheckPastProbe(id) ==
  \E d \in Callers : vcall[d].id = id /\ vcall[d].pc = "fetch"

C13_StartRegisters ==
  [][\A id \in JobIds :
        /\ (id \notin vEver /\ id \in vEver') =>
              /\ MapHas(activeVideoOperations', id)
              /\ vobs'[id] = "pending"
        /\ \A c \in Callers :
              ( /\ vobs[id] = "pending"
                /\ ~CheckPastProbe(id)
                /\ vcall[c].pc \in {"idle", "done"}
                /\ vcall'[c] # vcall[c]
                /\ vcall'[c].id = id )
              => /\ vcall'[c].pc = "probe"
                 /\ vcall'[c].res # VideoNotFound]_vars

C13_Witness ==
  \E c \in Callers, id \in JobIds :
     /\ vcall[c].pc = "probe"
     /\ vcall[c].id = id
     /\ vobs[id] = "pending"
     /\ MapHas(activeVideoOperations, id)

\* C12: a start whose remote call failed has stored no registry entry and
\* hands its caller the error of the remote call itself, message unchanged,
\* for video starts and for research starts alike.
C12_StartFailureUnchanged ==
  \A c \in Callers :
     (scall[c].pc = "done" /\ scall[c].res.status = "threw") =>
        /\ ~scall[c].registered
        /\ scall[c].res.error = scall[c].cause

\* C14: the ids returned by the successful starts of one process are pairwise
\* distinct within a job kind, remote-named or fallback, and no start has
\* replaced a registry entry that was already there.
C14_DistinctIds ==
  /\ \A i, j \in DOMAIN issued :
        (i # j /\ issued[i].kind = issued[j].kind) => issued[i].id # issued[j].id
  /\ overwritten = {}

\* C15: getEnabledToolGroups returns all TOOL_GROUPS keys when both
\* variables are unset, empty or blank, and when the trimmed preset text
\* names no entry of PRESETS.
AllBlank(v) == ~v.defined \/ \A i \in DOMAIN v.text : v.text[i] = Blank
PresetText == Text(Trim(env.GEMINI_TOOL_PRESET.text))

C15_DefaultsToAllGroups ==
  (/\ enabled.kind # "none"
   /\ \/ AllBlank(env.GEMINI_TOOL_PRESET) /\ AllBlank(env.GEMINI_ENABLED_TOOLS)
      \/ ~AllBlank(env.GEMINI_TOOL_PRESET) /\ PresetText \notin DOMAIN PRESETS)
  => enabled = GroupsResult(DOMAIN TOOL_GROUPS)

\* C16: with a known or unset preset and a non-empty explicit list the
\* result is exactly the preset's groups plus the trimmed, non-empty
\* explicit names that are keys of TOOL_GROUPS.
ValidExplicitNames ==
  LET parts == Split(env.GEMINI_ENABLED_TOOLS.text) IN
  {n \in {Text(Trim(parts[i])) : i \in DOMAIN parts} : n \in DOMAIN TOOL_GROUPS}

KnownPresetGroups ==
  IF AllBlank(env.GEMINI_TOOL_PRESET) THEN {}
  ELSE {PRESETS[PresetText][i] : i \in DOMAIN PRESETS[PresetText]}

C16_UnionOfPresetAndExplicit ==
  (/\ enabled.kind # "none"
   /\ AllBlank(env.GEMINI_TOOL_PRESET) \/ PresetText \in DOMAIN PRESETS
   /\ ~AllBlank(env.GEMINI_ENABLED_TOOLS))
  => enabled = GroupsResult(KnownPresetGroups \cup ValidExplicitNames)

\* C17: buildAnalysisPrompt throws 'No code provided' exactly when the file
\* list is empty and the inline code is absent or the empty string;
\* otherwise fileCount is the number of files and hasInlineCode is true
\* exactly when the inline code is a non-empty string.
C17_NoCodeExactly ==
  LET noInput == /\ Len(analysisIn.fileContents) = 0
                 /\ analysisIn.code \in {Undefined, Str("")}
  IN analysisOut.kind # "none" =>
       /\ (analysisOut.kind = "threw") <=> noInput
       /\ analysisOut.kind = "threw" => analysisOut.error = NoCodeMsg
       /\ analysisOut.kind = "result" =>
            /\ analysisOut.fileCount = Len(analysisIn.fileContents)
            /\ analysisOut.hasInlineCode <=>
                 (analysisIn.code.defined /\ analysisIn.code.text # "")

C17_Witness ==
  /\ analysisOut.kind = "threw"
  /\ analysisIn.fileContents = <<>>
  /\ analysisIn.code = Str("")

\* C21: a probe answered done with an error ends the check with status
\* failed carrying the remote's error text, the registry entry removed and
\* no fetch attempted.
C21_RemoteFailureSurfaced ==
  (/\ vcall[SeqCaller].pc = "done"
   /\ vcall[SeqCaller].status.done
   /\ vcall[SeqCaller].status.error # NoErr)
  => /\ vcall[SeqCaller].res.status = "failed"
     /\ vcall[SeqCaller].res.error = vcall[SeqCaller].status.error
     /\ ~MapHas(activeVideoOperations, vcall[SeqCaller].id)
     /\ vcall[SeqCaller].fetch = "none"

\* C22: a probe answered done with neither error nor video URI ends the
\* check, in that same step, with status completed and no artifact path;
\* the registry entry is removed and no fetch is counted.
C22_DoneWithoutPayloadCompletes ==
  [][\A c \in Callers :
        ( /\ vcall[c].pc = "probed"
          /\ vcall'[c].pc # "probed"
          /\ vcall[c].status.done
          /\ vcall[c].status.error = NoErr
          /\ vcall[c].status.uri = NoUri )
        => /\ vcall'[c].pc = "done"
           /\ vcall'[c].res.status = "completed"
           /\ vcall'[c].res.filePath = NoPath
           /\ vcall'[c].fetch = "none"
           /\ videoFetches' = videoFetches
           /\ ~MapHas(activeVideoOperations', vcall[c].id)]_vars

C22_Witness ==
  \E c \in Callers :
     /\ vcall[c].pc = "done"
     /\ vcall[c].status.done
     /\ vcall[c].status.error = NoErr
     /\ vcall[c].status.uri = NoUri
     /\ vcall[c].res.status = "completed"
     /\ vcall[c].res.filePath = NoPath

\* C23: every probe of an id passes the handle stored at launch, and a probe
\* answered not-yet-done returns processing and leaves the registry entry
\* as it was.
C23_HandlePassedUnchanged ==
  /\ \A c \in Callers :
        vcall[c].pc \in {"probe", "probed"} => vcall[c].op = StartedOperation
  /\ \A id \in JobIds :
        MapHas(activeVideoOperations, id) => activeVideoOperations[id] = StartedOperation

\* C24: a step of a status check for one id leaves every other id's registry
\* entry as it was: present or absent as before, same stored handle.
C24_OtherEntriesUntouched ==
  [][\A c \in Callers, B \in JobIds :
        (vcall'[c] # vcall[c] /\ vcall'[c].id # B) =>
           /\ MapHas(activeVideoOperations', B) <=> MapHas(activeVideoOperations, B)
           /\ MapHas(activeVideoOperations, B) =>
                 activeVideoOperations'[B] = activeVideoOperations[B]]_vars

C24_Witness ==
  \E c \in Callers, B \in JobIds :
     /\ vcall[c].pc = "done"
     /\ IsTerminalVideo(vcall[c].res)
     /\ vcall[c].id # B
     /\ MapHas(activeVideoOperations, B)

\* C28: once a check has returned a terminal result for an id, the id is
\* absent from the registry and stays so, and no later return for it says
\* processing.
C28_RemovedStaysAbsent ==
  \A id \in JobIds :
     id \in vTerminal =>
        /\ ~MapHas(activeVideoOperations, id)
        /\ vobs[id] # "processing"

\* C25: a polling loop never makes more than the maximum number of ticks,
\* and once polling it always reaches its end (a terminal result, or the
\* timeout), whatever the probes yield.
C25_LoopTerminates ==
  /\ [](loop.probes <= MaxAttempts)
  /\ (loop.pc \in {"poll", "await"}) ~> (loop.pc = "exit")

C25_Witness ==
  /\ loop.pc = "exit"
  /\ loop.outcome = "timeout"
  /\ loop.cause = "completedWithoutArtifact"
  /\ loop.threw

\* C26: a loop that was cancelled was stopped at the top of a tick, with no
\* probe in flight, and the job's registry entry is still there.
C26_CooperativeCancel ==
  (loop.pc = "exit" /\ loop.outcome = "interrupted") =>
     /\ loop.interruptedAt = "poll"
     /\ loop.kind = "video" => MapHas(activeVideoOperations, loop.id)

\* C27: from tick to tick the progress value shown never goes down, goes
\* up as long as it is under the cap, and is below the total (100%) on
\* every tick up to the attempt maximum of the command.
C27_ProgressMonotoneBelowFull ==
  [][bar'.attempts > bar.attempts =>
        /\ bar'.current >= bar.current
        /\ bar'.current < ProgressCap => bar'.current > bar.current
        /\ bar'.current < ProgressTotal]_vars

C27_Witness ==
  /\ bar.kind = "research"
  /\ bar.attempts = ResearchMaxAttempts
  /\ bar.current = ProgressCap

\* a step in which caller c calls the handler op
ImageCallStep(c, op) ==
  /\ icall[c].pc \in {"idle", "done"}
  /\ icall'[c] # icall[c]
  /\ icall'[c].op = op

\* C29: a session id is usable exactly between its successful start and
\* its end: a start that answers with an error registers nothing and a
\* successful one registers the id it returns; a continue for
\* an id not in the Map (ended ones included) answers Session not found
\* without sending a message, one for a registered id sends it; a list shows
\* exactly the registered ids, none of them ended; an end of an unregistered
\* id changes nothing and is no error, an end of a registered id removes
\* that id alone.
C29_SessionLifetime ==
  [][\A c \in Callers :
        /\ (icall[c].pc = "startAwait" /\ icall'[c].pc = "done") =>
              /\ icall'[c].res.isError => activeEditSessions' = activeEditSessions
              /\ icall'[c].cause = "image" =>
                    /\ ~MapHas(activeEditSessions, icall'[c].res.id)
                    /\ MapHas(activeEditSessions', icall'[c].res.id)
        /\ ImageCallStep(c, "continue") =>
              IF MapHas(activeEditSessions, icall'[c].id)
              THEN icall'[c].pc = "continueAwait" /\ icall'[c].id \notin endedSessions
              ELSE /\ icall'[c].pc = "done"
                   /\ icall'[c].res.kind = "sessionNotFound"
                   /\ icall'[c].res.isError
                   /\ sent' = sent
        /\ ImageCallStep(c, "list") =>
              /\ icall'[c].res.ids = DOMAIN activeEditSessions
              /\ icall'[c].res.ids \cap endedSessions = {}
        /\ ImageCallStep(c, "end") =>
              /\ ~icall'[c].res.isError
              /\ ~MapHas(activeEditSessions', icall'[c].id)
              /\ \A other \in CallIds \ {icall'[c].id} :
                    /\ MapHas(activeEditSessions', other) <=> MapHas(activeEditSessions, other)
                    /\ MapHas(activeEditSessions, other) =>
                          activeEditSessions'[other] = activeEditSessions[other]
        /\ endedSessions' \cap DOMAIN activeEditSessions' = {}]_vars

\* C30: initGeminiClient makes at most 3 attempts; no attempt follows a
\* successful one and it returns only after a success; after a failed
\* attempt before the third it goes on to retry; it throws the 'Failed to
\* connect to Gemini API after 3 attempts' error exactly when all 3
\* attempts failed (the timeout being one way to fail); once called it
\* always ends by returning or throwing.
C30_ThreeAttempts ==
  /\ [](LET n == Len(conn.outcomes)
            failed(i) == conn.outcomes[i] \in AttemptFailures
            allFailed == n = 3 /\ \A i \in 1..3 : failed(i)
        IN
        /\ conn.attempts <= 3
        /\ n <= conn.attempts
        /\ \A i \in 1..(n - 1) : failed(i)
        /\ conn.pc = "returned" => n > 0 /\ conn.outcomes[n] = "ok" /\ conn.connected
        /\ (n > 0 /\ n < 3 /\ failed(n)) => conn.pc \in {"sleep", "loop", "race"}
        /\ (n > 0 /\ n < 3 /\ failed(n) /\ conn.pc = "race") => conn.attempts = n + 1
        /\ allFailed <=>
             /\ conn.pc = "threw"
             /\ \E o \in AttemptFailures :
                  conn.error = "Failed to connect to Gemini API after 3 attempts: "
                                  \o AttemptErrorMessage(o))
  /\ (conn.pc # "idle") ~> (conn.pc \in {"returned", "threw"})

C30_Witness ==
  /\ conn.pc = "threw"
  /\ conn.attempts = 3
  /\ conn.outcomes[3] = "timeout"
  /\ conn.error = "Failed to connect to Gemini API after 3 attempts: Connection timeout"

====
